---- MODULE Spec2Model ----
(***************************************************************************)
(* Fishdle: daily selection (js/daily.js, Daily), the hint ledger          *)
(* (js/daily.js, Hints) and the game session (js/game.js, Game) as a       *)
(* state machine over the page's module-level variables and localStorage.  *)
(*                                                                         *)
(* Instants (Date values) are counted in whole hours since the Unix epoch; *)
(* the code counts milliseconds, 3600000 to the hour.                      *)
(***************************************************************************)
EXTENDS Integers, Sequences, FiniteSets, TLC

VARIABLES
    now,                \* the wall clock (new Date()), hours since the Unix epoch
    tz,                 \* the browser's UTC offset in hours (local = UTC + tz)
    page,               \* "closed" | "playing" | "crashed" (init() threw)
    fishDatabase,       \* game.js:22
    targetFish,         \* game.js:23
    gameNumber,         \* game.js:24
    guesses,            \* game.js:25
    gameOver,           \* game.js:26
    won,                \* game.js:27
    selectedFish,       \* game.js:28
    stats,              \* game.js:34
    scoreText,          \* elements.currentScore.textContent
    hintsTarget,        \* daily.js:78  Hints.targetFish
    revealedLetters,    \* daily.js:79
    revealedAttributes, \* daily.js:80
    localStorage,       \* [stats: item or null, games: day key -> item]
    fishJson,           \* the static resource data/fish.json
    rng,                \* the generator made by the last getDailyFish call
    lastDaily,          \* history: the last getDailyFish call and its result
    horizon,            \* the instant at which exploration of the clock stops
    writable,           \* localStorage.setItem succeeds (it throws when the quota is used up)
    uncaught,           \* the last handler ended with an exception nobody caught
    inputDisabled,      \* disableInput() has run: autocomplete and buttons are disabled
    hintCall,           \* history: the last call of Hints made on the open page
    lastShare           \* history: the last share text made on the open page

vars == <<now, tz, page, fishDatabase, targetFish, gameNumber, guesses,
          gameOver, won, selectedFish, stats, scoreText, hintsTarget,
          revealedLetters, revealedAttributes, localStorage, fishJson, rng,
          lastDaily, horizon, writable, uncaught, inputDisabled, hintCall,
          lastShare>>

\* JavaScript's undefined and null where an object is expected, and the null
\* of a size comparison's direction (a string otherwise)
undefined == [undefined |-> TRUE]
null == [null |-> TRUE]
nullDirection == "null"

-----------------------------------------------------------------------------
(* 32-bit words, kept as two 16-bit halves so that no intermediate value    *)
(* leaves the checker's integer range.  These model the ToInt32/ToUint32    *)
(* arithmetic of ^, |, >>> and Math.imul.                                   *)

Half == 65536

ToWord(n) == [hi |-> (n \div Half) % Half, lo |-> n % Half]

RECURSIVE BitXor(_, _)
BitXor(a, b) ==
    IF a = 0 THEN b
    ELSE IF b = 0 THEN a
    ELSE 2 * BitXor(a \div 2, b \div 2) + ((a + b) % 2)

RECURSIVE BitOr(_, _)
BitOr(a, b) ==
    IF a = 0 THEN b
    ELSE IF b = 0 THEN a
    ELSE 2 * BitOr(a \div 2, b \div 2) + (IF a % 2 = 1 \/ b % 2 = 1 THEN 1 ELSE 0)

Xor32(a, b) == [hi |-> BitXor(a.hi, b.hi), lo |-> BitXor(a.lo, b.lo)]

\* w | n for a small constant n (n < 2^16)
Or32(a, n) == [hi |-> a.hi, lo |-> BitOr(a.lo, n)]

Add32(a, b) ==
    LET lo == a.lo + b.lo
    IN  [hi |-> (a.hi + b.hi + lo \div Half) % Half, lo |-> lo % Half]

RECURSIVE Pow2(_)
Pow2(n) == IF n = 0 THEN 1 ELSE 2 * Pow2(n - 1)

\* a >>> n, for 0 < n < 16
Shr32(a, n) ==
    [hi |-> a.hi \div Pow2(n),
     lo |-> a.lo \div Pow2(n) + (a.hi % Pow2(n)) * Pow2(16 - n)]

\* (x * y) mod 2^16 for 16-bit x, y
MulLo16(x, y) == (x * (y % 256) + ((x * (y \div 256)) % 256) * 256) % Half

\* Math.imul: the low 32 bits of a * b
Imul32(a, b) ==
    LET p0 == a.lo * (b.lo % 256)
        p1 == a.lo * (b.lo \div 256)
        low == Add32(ToWord(p0), [hi |-> (p1 \div 256) % Half, lo |-> (p1 % 256) * 256])
        cross == (MulLo16(a.hi, b.lo) + MulLo16(a.lo, b.hi)) % Half
    IN  [hi |-> (low.hi + cross) % Half, lo |-> low.lo]

-----------------------------------------------------------------------------
(* The calendar behind Date.UTC and the Date getters (proleptic Gregorian). *)

HoursPerDay == 24

\* a function's argument is a value: the year, month and day given are
\* evaluated once, whatever expressions they are
DaysFromCivil(y, m, d) ==
    LET days[ymd \in Int \X Int \X Int] ==
            LET yy == IF ymd[2] <= 2 THEN ymd[1] - 1 ELSE ymd[1]
                era == yy \div 400
                yoe == yy - era * 400
                mp == IF ymd[2] > 2 THEN ymd[2] - 3 ELSE ymd[2] + 9
                doy == (153 * mp + 2) \div 5 + ymd[3] - 1
                doe == yoe * 365 + yoe \div 4 - yoe \div 100 + doy
            IN  era * 146097 + doe - 719468
    IN  days[<<y, m, d>>]

CivilFromDays(days) ==
    LET civil[z \in Int] ==
            LET era == z \div 146097
                doe == z - era * 146097
                yoe == (doe - doe \div 1460 + doe \div 36524 - doe \div 146096) \div 365
                doy == doe - (365 * yoe + yoe \div 4 - yoe \div 100)
                mp == (5 * doy + 2) \div 153
                d == doy - (153 * mp + 2) \div 5 + 1
                m == IF mp < 10 THEN mp + 3 ELSE mp - 9
            IN  [year |-> yoe + era * 400 + (IF m <= 2 THEN 1 ELSE 0), month |-> m, day |-> d]
    IN  civil[days + 719468]

\* Date.UTC(year, monthIndex, day): monthIndex counts from 0
DateUTC(year, monthIndex, day) == DaysFromCivil(year, monthIndex + 1, day) * HoursPerDay

\* date.getUTCFullYear() / getUTCMonth() / getUTCDate()
getUTCFullYear(date) == CivilFromDays(date \div HoursPerDay).year
getUTCMonth(date) == CivilFromDays(date \div HoursPerDay).month - 1
getUTCDate(date) == CivilFromDays(date \div HoursPerDay).day

\* date.getFullYear() / getMonth() / getDate(): the fields of the LOCAL time
getFullYear(date, zone) == CivilFromDays((date + zone) \div HoursPerDay).year
getMonth(date, zone) == CivilFromDays((date + zone) \div HoursPerDay).month - 1
getDate(date, zone) == CivilFromDays((date + zone) \div HoursPerDay).day

\* date.toISOString().split('T')[0]: the UTC fields, "YYYY-MM-DD"
ISODate(date) == <<getUTCFullYear(date), getUTCMonth(date) + 1, getUTCDate(date)>>

-----------------------------------------------------------------------------
(* Daily (js/daily.js)                                                      *)

MulberryIncrement == 1831565813    \* 0x6D2B79F5

\* one call of the closure seededRandom returns: the closure's seed after
\* the call, and the 32-bit value that is divided by 4294967296
Mulberry32(seed) ==
    LET s1 == Add32(seed, ToWord(MulberryIncrement))
        t1 == Imul32(Xor32(s1, Shr32(s1, 15)), Or32(s1, 1))
        t2 == Xor32(t1, Add32(t1, Imul32(Xor32(t1, Shr32(t1, 7)), Or32(t1, 61))))
    IN  [seed |-> s1, value |-> Xor32(t2, Shr32(t2, 14))]

\* mutant: one generator for the module, seeded by the first call only
seededRandom_shared(seed) == IF rng # null THEN rng ELSE ToWord(seed)

\* seededRandom(seed): the state of the fresh closure
seededRandom(seed) == ToWord(seed)

\* mutant: Math.ceil in place of Math.floor (of a product that is no integer)
ScaleToIndex_ceil(value, length) ==
    (value.hi * length + (value.lo * length) \div Half) \div Half + 1

\* Math.floor((value / 4294967296) * length)
ScaleToIndex(value, length) ==
    (value.hi * length + (value.lo * length) \div Half) \div Half

\* parseInt(`${year}${month}${day}`, 10) with month and day padded to 2 digits
dateToSeed(date, zone) ==
    getFullYear(date, zone) * 10000 + (getMonth(date, zone) + 1) * 100 + getDate(date, zone)

getTodayUTC(clock) == DateUTC(getUTCFullYear(clock), getUTCMonth(clock), getUTCDate(clock))

LaunchDate == DateUTC(2024, 0, 1)

\* mutant: the days since launch, counted from 0
getGameNumber_fromZero(date) == (date - LaunchDate) \div HoursPerDay

getGameNumber(date) == ((date - LaunchDate) \div HoursPerDay) + 1

getTodayKey(clock) == ISODate(getTodayUTC(clock))

\* getDailyFish(fishDatabase, date): the returned object, the index drawn, and
\* the generator the call created and drew from once
getDailyFish(database, date, zone) ==
    LET draw == Mulberry32(seededRandom(dateToSeed(date, zone)))
        index == ScaleToIndex(draw.value, Len(database))
    IN  [fish |-> IF index < Len(database) THEN database[index + 1] ELSE undefined,
         gameNumber |-> getGameNumber(date),
         date |-> ISODate(date),
         index |-> index,
         rng |-> draw.seed]

-----------------------------------------------------------------------------
(* Hints (js/daily.js)                                                      *)

LETTER_HINT_COST == 10
ATTRIBUTE_HINT_COST == 5

\* Object.keys(targetFish.attributes), in the order the entity lists them
AttributeNames == <<"habitat", "size", "family", "region">>

Range(s) == {s[i] : i \in DOMAIN s}

\* the 0-based indices of the non-space characters, ascending
getLetterPositions(fish) ==
    SelectSeq([i \in 1..Len(fish.name) |-> i - 1], LAMBDA p : fish.name[p + 1] # " ")

\* allPositions.filter(pos => !revealedLetters.includes(pos))
unrevealedPositions(fish, letters) ==
    SelectSeq(getLetterPositions(fish), LAMBDA p : p \notin Range(letters))

\* mutant: every attribute counts as unrevealed
unrevealedAttributes_all(attributes) == AttributeNames

\* allAttributes.filter(attr => !revealedAttributes.includes(attr))
unrevealedAttributes(attributes) ==
    SelectSeq(AttributeNames, LAMBDA a : a \notin Range(attributes))

\* mutant: the position is pushed and the array left unsorted
pushSorted_unsorted(letters, position) == Append(letters, position)

\* revealedLetters.push(position); revealedLetters.sort((a, b) => a - b)
pushSorted(letters, position) ==
    SortSeq(Append(letters, position), LAMBDA a, b : a < b)

\* Hints.revealLetter() with Math.random drawing position: the value returned
\* (null at exhaustion) and the letters revealed afterwards
revealLetter(fish, letters, position) ==
    IF unrevealedPositions(fish, letters) = <<>>
    THEN [result |-> null, revealedLetters |-> letters]
    ELSE [result |-> [position |-> position, letter |-> fish.name[position + 1],
                      cost |-> LETTER_HINT_COST],
          revealedLetters |-> pushSorted(letters, position)]

\* Hints.revealAttribute() with Math.random drawing attribute
revealAttribute(fish, attributes, attribute) ==
    IF unrevealedAttributes(attributes) = <<>>
    THEN [result |-> null, revealedAttributes |-> attributes]
    ELSE [result |-> [attribute |-> attribute, value |-> fish.attributes[attribute],
                      cost |-> ATTRIBUTE_HINT_COST],
          revealedAttributes |-> Append(attributes, attribute)]

canRevealLetter(fish, letters) == Len(letters) < Len(getLetterPositions(fish))

canRevealAttribute(attributes) == Len(attributes) < Len(AttributeNames)

getHintPenalty(letters, attributes) ==
    Len(letters) * LETTER_HINT_COST + Len(attributes) * ATTRIBUTE_HINT_COST

\* mutant: the state leaves the attributes out
getState_noAttributes(letters, attributes) == [revealedLetters |-> letters]

getState(letters, attributes) ==
    [revealedLetters |-> letters, revealedAttributes |-> attributes]

-----------------------------------------------------------------------------
(* Game (js/game.js): constants and pure functions                          *)

BASE_SCORE == 100
GUESS_PENALTY == 5
MIN_SCORE == 10

SIZE_ORDER == <<"tiny", "small", "medium", "large", "giant">>

\* mutant: the groups listed under their first ocean only
OCEAN_GROUPS_oneWay ==
    [r \in {"Atlantic", "Pacific", "Arctic", "Indian",
            "Freshwater Americas", "Freshwater Europe/Asia"} |->
        CASE r = "Atlantic" -> {"Atlantic", "Arctic"}
          [] r = "Pacific" -> {"Pacific", "Indian"}
          [] OTHER -> {r}]

OCEAN_GROUPS ==
    [r \in {"Atlantic", "Pacific", "Arctic", "Indian",
            "Freshwater Americas", "Freshwater Europe/Asia"} |->
        CASE r \in {"Atlantic", "Arctic"} -> {"Atlantic", "Arctic"}
          [] r \in {"Pacific", "Indian"} -> {"Pacific", "Indian"}
          [] OTHER -> {r}]

Max(a, b) == IF a >= b THEN a ELSE b
Abs(n) == IF n < 0 THEN 0 - n ELSE n

\* Array.prototype.indexOf: 0-based, -1 when absent
indexOf(array, value) ==
    IF \E i \in DOMAIN array : array[i] = value
    THEN (CHOOSE i \in DOMAIN array :
            array[i] = value /\ \A j \in DOMAIN array : array[j] = value => i <= j) - 1
    ELSE -1

\* mutant: the hints cost nothing
calculateScore_noHintPenalty(guessList, letters, attributes) ==
    Max(MIN_SCORE, BASE_SCORE - Len(guessList) * GUESS_PENALTY)

calculateScore(guessList, letters, attributes) ==
    LET guessPenalty == Len(guessList) * GUESS_PENALTY
        hintPenalty == getHintPenalty(letters, attributes)
        score == BASE_SCORE - guessPenalty - hintPenalty
    IN  Max(MIN_SCORE, score)

\* mutant: the difference compared without Math.abs
sizeMatch_noAbs(sizeDiff) ==
    IF sizeDiff = 0 THEN "exact" ELSE IF sizeDiff = 1 THEN "close" ELSE "wrong"

sizeMatch(sizeDiff) ==
    IF sizeDiff = 0 THEN "exact" ELSE IF Abs(sizeDiff) = 1 THEN "close" ELSE "wrong"

sizeDirection(sizeDiff) ==
    IF sizeDiff > 0 THEN "down" ELSE IF sizeDiff < 0 THEN "up" ELSE nullDirection

regionMatch(guessedRegion, targetRegion) ==
    LET guessedOceanGroup ==
            IF guessedRegion \in DOMAIN OCEAN_GROUPS THEN OCEAN_GROUPS[guessedRegion] ELSE {}
        isCloseRegion == targetRegion \in guessedOceanGroup
    IN  IF guessedRegion = targetRegion THEN "exact"
        ELSE IF isCloseRegion THEN "close" ELSE "wrong"

compareAttributes(guessed, target) ==
    LET sizeDiff == indexOf(SIZE_ORDER, guessed.attributes.size)
                    - indexOf(SIZE_ORDER, target.attributes.size)
    IN  [habitat |-> [value |-> guessed.attributes.habitat,
                      match |-> IF guessed.attributes.habitat = target.attributes.habitat
                                THEN "exact" ELSE "wrong"],
         size |-> [value |-> guessed.attributes.size,
                   match |-> sizeMatch(sizeDiff),
                   direction |-> sizeDirection(sizeDiff)],
         family |-> [value |-> guessed.attributes.family,
                     match |-> IF guessed.attributes.family = target.attributes.family
                               THEN "exact" ELSE "wrong"],
         region |-> [value |-> guessed.attributes.region,
                     match |-> regionMatch(guessed.attributes.region,
                                           target.attributes.region)]]

-----------------------------------------------------------------------------
(* Sharing: a text is a sequence of lines, a line a sequence of pieces (an  *)
(* emoji by its name in EMOJI's comments, or a run of plain characters)     *)

EMOJI == [correct |-> "green square", close |-> "yellow square",
          wrong |-> "white square", win |-> "check mark", fish |-> "fish",
          letter |-> "letters", chart |-> "chart"]

generateGuessRow(guess) ==
    LET attributes == <<"habitat", "size", "family", "region">>
    IN  [i \in DOMAIN attributes |->
            LET match == guess.comparison[attributes[i]].match
            IN  CASE match = "exact" -> EMOJI.correct
                  [] match = "close" -> EMOJI.close
                  [] OTHER -> EMOJI.wrong]

\* mutant: the win mark goes to every row of a won session
guessLine_everyRow(guessHistory, hasWon, index) ==
    IF hasWon THEN generateGuessRow(guessHistory[index + 1]) \o <<" ", EMOJI.win>>
    ELSE generateGuessRow(guessHistory[index + 1])

\* the line that the callback of guessHistory.forEach adds for index
guessLine(guessHistory, hasWon, index) ==
    LET isLast == index = Len(guessHistory) - 1
        row == generateGuessRow(guessHistory[index + 1])
    IN  IF isLast /\ hasWon THEN row \o <<" ", EMOJI.win>> ELSE row

\* Hints.getHintCounts()
getHintCounts(letters, attributes) ==
    [letters |-> Len(letters), attributes |-> Len(attributes)]

generateShareText(gameResult) ==
    LET hintCounts == gameResult.hintCounts
    IN  << <<EMOJI.fish, " Fishdle #", ToString(gameResult.gameNumber), " ", EMOJI.fish>>,
           <<"Score: ", ToString(gameResult.score), "/100">>,
           <<>> >>
        \o [i \in 1..Len(gameResult.guessHistory) |->
                guessLine(gameResult.guessHistory, gameResult.won, i - 1)]
        \o (IF hintCounts.letters > 0 \/ hintCounts.attributes > 0
            THEN << <<>>,
                    (IF hintCounts.letters > 0
                     THEN <<EMOJI.letter, " x", ToString(hintCounts.letters), " ">>
                     ELSE <<>>)
                    \o (IF hintCounts.attributes > 0
                        THEN <<EMOJI.chart, " x", ToString(hintCounts.attributes)>>
                        ELSE <<>>) >>
            ELSE <<>>)
        \o << <<>>, <<"https://connorbach.github.io/fishdle">> >>

-----------------------------------------------------------------------------
(* Text of the guess input                                                  *)

\* String.prototype.toLowerCase, on the letters the model's names use
toLowerCaseChar(c) ==
    CASE c = "B" -> "b" [] c = "C" -> "c" [] c = "E" -> "e" [] c = "G" -> "g"
      [] c = "K" -> "k" [] c = "R" -> "r"
      [] OTHER -> c

toLowerCase(text) == [i \in DOMAIN text |-> toLowerCaseChar(text[i])]

\* String.prototype.trim
RECURSIVE trim(_)
trim(text) ==
    IF text = <<>> THEN text
    ELSE IF Head(text) = " " THEN trim(Tail(text))
    ELSE IF text[Len(text)] = " " THEN trim(SubSeq(text, 1, Len(text) - 1))
    ELSE text

\* array.find over the indices matching: the first match, or undefined
firstOf(database, matching) ==
    IF matching = {} THEN undefined
    ELSE database[CHOOSE i \in matching : \A j \in matching : i <= j]

\* mutant: a name that matches nothing finds the first entity
findByName_orFirst(database, inputValue) ==
    LET matching == {i \in DOMAIN database :
                       toLowerCase(database[i].name) = toLowerCase(inputValue)}
    IN  IF matching = {} /\ database # <<>> THEN database[1]
        ELSE firstOf(database, matching)

\* fishDatabase.find(f => f.name.toLowerCase() === inputValue.toLowerCase())
findByName(database, inputValue) ==
    firstOf(database, {i \in DOMAIN database :
                         toLowerCase(database[i].name) = toLowerCase(inputValue)})

\* fishDatabase.find(f => f.id === fishId)
findById(database, fishId) ==
    firstOf(database, {i \in DOMAIN database : database[i].id = fishId})

-----------------------------------------------------------------------------
(* localStorage and JSON                                                    *)

\* JSON.stringify of the plain data the game saves
JSONstringify(value) == [json |-> value]

\* an item JSON.parse rejects with a SyntaxError
MalformedItem == [text |-> "{not json"]

JSONparses(item) == "json" \in DOMAIN item
JSONparse(item) == item.json

statsKeyItem(storage) == storage.stats

\* localStorage.getItem(`fishdle-${todayKey}`): null when absent
getGameItem(storage, todayKey) ==
    IF todayKey \in DOMAIN storage.games THEN storage.games[todayKey] ELSE null

\* localStorage.setItem(`fishdle-${todayKey}`, ...)
setGameItem(storage, todayKey, item) ==
    [storage EXCEPT !.games =
        [k \in DOMAIN storage.games \cup {todayKey} |->
            IF k = todayKey THEN item ELSE storage.games[k]]]

\* localStorage.setItem('fishdle-stats', ...)
setStatsItem(storage, item) == [storage EXCEPT !.stats = item]

\* mutant: the hint state is saved as it was when the page was loaded
gameStateOf_noHints(guessList, letters, attributes, over, hasWon) ==
    [guesses |-> [i \in DOMAIN guessList |->
                    [fishId |-> guessList[i].fish.id,
                     comparison |-> guessList[i].comparison,
                     correct |-> guessList[i].correct]],
     hints |-> getState(<<>>, <<>>),
     gameOver |-> over,
     won |-> hasWon]

\* the object saveGameState serialises
gameStateOf(guessList, letters, attributes, over, hasWon) ==
    [guesses |-> [i \in DOMAIN guessList |->
                    [fishId |-> guessList[i].fish.id,
                     comparison |-> guessList[i].comparison,
                     correct |-> guessList[i].correct]],
     hints |-> getState(letters, attributes),
     gameOver |-> over,
     won |-> hasWon]

saveGameState(storage, clock, guessList, letters, attributes, over, hasWon) ==
    setGameItem(storage, getTodayKey(clock),
                JSONstringify(gameStateOf(guessList, letters, attributes, over, hasWon)))

saveStats(storage, playerStats) == setStatsItem(storage, JSONstringify(playerStats))

\* loadGameState(todayKey): the parsed object, or null
loadGameState(storage, todayKey) ==
    LET saved == getGameItem(storage, todayKey)
    IN  IF saved = null THEN null
        ELSE IF JSONparses(saved) THEN JSONparse(saved) ELSE null

InitialStats == [gamesPlayed |-> 0, wins |-> 0, currentStreak |-> 0, maxStreak |-> 0]

\* mutant: the saved stats are never read back
loadStats_ignoreSaved(storage, playerStats) == playerStats

\* loadStats(): { ...stats, ...JSON.parse(saved) }, the defaults on any failure
loadStats(storage, playerStats) ==
    LET saved == statsKeyItem(storage)
    IN  IF saved = null THEN playerStats
        ELSE IF JSONparses(saved)
             THEN [k \in DOMAIN playerStats |->
                     IF k \in DOMAIN JSONparse(saved) THEN JSONparse(saved)[k]
                     ELSE playerStats[k]]
             ELSE playerStats

\* the guesses restoreGameState rebuilds from a saved state
restoredGuesses(database, savedState) ==
    [i \in DOMAIN savedState.guesses |->
        [fish |-> findById(database, savedState.guesses[i].fishId),
         comparison |-> savedState.guesses[i].comparison,
         correct |-> savedState.guesses[i].correct]]

\* mutant: the saved letters are not taken over
loadedLetters_none(state) == <<>>

\* Hints.loadState(state) on a freshly initialised ledger
loadedLetters(state) ==
    IF "revealedLetters" \in DOMAIN state THEN state.revealedLetters ELSE <<>>
loadedAttributes(state) ==
    IF "revealedAttributes" \in DOMAIN state THEN state.revealedAttributes ELSE <<>>

\* mutant: the win is counted but the game is not
wonStats_noGamesPlayed(playerStats) ==
    [gamesPlayed |-> playerStats.gamesPlayed,
     wins |-> playerStats.wins + 1,
     currentStreak |-> playerStats.currentStreak + 1,
     maxStreak |-> Max(playerStats.maxStreak, playerStats.currentStreak + 1)]

\* mutant: maxStreak is left as it was
wonStats_staleMaxStreak(playerStats) ==
    [gamesPlayed |-> playerStats.gamesPlayed + 1,
     wins |-> playerStats.wins + 1,
     currentStreak |-> playerStats.currentStreak + 1,
     maxStreak |-> playerStats.maxStreak]

\* stats after handleWin's four updates
wonStats(playerStats) ==
    [gamesPlayed |-> playerStats.gamesPlayed + 1,
     wins |-> playerStats.wins + 1,
     currentStreak |-> playerStats.currentStreak + 1,
     maxStreak |-> Max(playerStats.maxStreak, playerStats.currentStreak + 1)]

-----------------------------------------------------------------------------
(* The page: module-level state of Game and Hints before init() has run     *)

\* the text shown in elements.currentScore: a number once updateScore ran
NoText == {}
TextOf(n) == {n}

ModuleInitial ==
    /\ fishDatabase = <<>>
    /\ targetFish = null
    /\ gameNumber = 0
    /\ guesses = <<>>
    /\ gameOver = FALSE
    /\ won = FALSE
    /\ selectedFish = null
    /\ stats = InitialStats
    /\ scoreText = NoText
    /\ hintsTarget = null
    /\ revealedLetters = <<>>
    /\ revealedAttributes = <<>>
    /\ uncaught = FALSE
    /\ inputDisabled = FALSE

EmptyStorage == [stats |-> null, games |-> [k \in {} |-> null]]

InitOf(resources, clocks, zones, span) ==
    /\ fishJson \in resources
    /\ now \in clocks
    /\ tz \in zones
    /\ horizon = now + span
    /\ page = "closed"
    /\ ModuleInitial
    /\ localStorage = EmptyStorage
    /\ rng = null
    /\ lastDaily = null
    /\ writable = TRUE
    /\ hintCall = null
    /\ lastShare = null

\* what no handler of the page assigns: the time zone, data/fish.json, the
\* clock's horizon, the storage's quota and the records of the calls of Hints
\* and of the share texts
environment == <<tz, fishJson, horizon, writable, hintCall, lastShare>>

\* history: one call of getDailyFish (by init or on the open page), its
\* arguments, what it returned, and the same of the call before it
callSummary(call) ==
    IF call = null THEN null
    ELSE [database |-> call.database, argument |-> call.argument, index |-> call.index,
          gameNumber |-> call.gameNumber, date |-> call.date]

dailyCall(caller, database, date, dailyData) ==
    [by |-> caller, clock |-> now, database |-> database, argument |-> date,
     index |-> dailyData.index, gameNumber |-> dailyData.gameNumber,
     date |-> dailyData.date, previous |-> callSummary(lastDaily)]

\* init(), game.js:44-86, with the database fetched successfully
init ==
    /\ page = "closed"
    /\ LET database == fishJson
           todayKey == getTodayKey(now)
           savedGame == loadGameState(localStorage, todayKey)
           dailyData == getDailyFish(database, getTodayUTC(now), tz)
           target == dailyData.fish
           restored == restoredGuesses(database, savedGame)
       IN  /\ fishDatabase' = database
           /\ stats' = loadStats(localStorage, stats)
           /\ targetFish' = target
           /\ gameNumber' = dailyData.gameNumber
           /\ hintsTarget' = target
           /\ rng' = dailyData.rng
           /\ lastDaily' = dailyCall("init", database, getTodayUTC(now), dailyData)
           /\ IF savedGame # null
              THEN \* restoreGameState(savedGame)
                   /\ guesses' = restored
                   /\ IF \E i \in DOMAIN restored : restored[i].fish = undefined
                      THEN \* guesses.map(g => g.fish.id) throws
                           /\ page' = "crashed"
                           /\ UNCHANGED <<revealedLetters, revealedAttributes,
                                          gameOver, won, scoreText>>
                      ELSE /\ revealedLetters' = loadedLetters(savedGame.hints)
                           /\ revealedAttributes' = loadedAttributes(savedGame.hints)
                           /\ gameOver' = savedGame.gameOver
                           /\ won' = savedGame.won
                           /\ IF target = undefined
                              THEN \* renderSilhouette throws on the missing target
                                   page' = "crashed" /\ UNCHANGED scoreText
                              ELSE /\ page' = "playing"
                                   /\ scoreText' = TextOf(calculateScore(restored,
                                          loadedLetters(savedGame.hints),
                                          loadedAttributes(savedGame.hints)))
              ELSE \* fresh game
                   /\ UNCHANGED <<guesses, revealedLetters, revealedAttributes,
                                  gameOver, won>>
                   /\ IF target = undefined
                      THEN page' = "crashed" /\ UNCHANGED scoreText
                      ELSE /\ page' = "playing"
                           /\ scoreText' = TextOf(calculateScore(guesses,
                                  revealedLetters, revealedAttributes))
    /\ uncaught' = (page' = "crashed")
    /\ inputDisabled' = (page' = "playing" /\ gameOver')
    /\ UNCHANGED <<now, selectedFish, localStorage, environment>>

\* the page is closed or reloaded: every module-level variable is gone
closePage ==
    /\ page # "closed"
    /\ page' = "closed"
    /\ fishDatabase' = <<>>
    /\ targetFish' = null
    /\ gameNumber' = 0
    /\ guesses' = <<>>
    /\ gameOver' = FALSE
    /\ won' = FALSE
    /\ selectedFish' = null
    /\ stats' = InitialStats
    /\ scoreText' = NoText
    /\ hintsTarget' = null
    /\ revealedLetters' = <<>>
    /\ revealedAttributes' = <<>>
    /\ uncaught' = FALSE
    /\ inputDisabled' = FALSE
    /\ rng' = null
    /\ UNCHANGED <<now, localStorage, lastDaily, environment>>

\* mutant: no guess counts as made before
alreadyGuessed_never(guessList, fish) == FALSE

\* guesses.some(g => g.fish.id === guessedFish.id)
alreadyGuessed(guessList, fish) ==
    \E i \in DOMAIN guessList : guessList[i].fish.id = fish.id

\* submitGuess(), game.js:241-291, entered with selectedFish = selected and
\* the input holding value
submitGuessWith(selected, value) ==
    \* const inputValue, const guessedFish: evaluated once
    \E inputValue \in {trim(value)} :
    \E guessedFish \in {IF selected # null THEN selected
                         ELSE findByName(fishDatabase, inputValue)} :
        IF gameOver \/ inputValue = <<>> \/ guessedFish = undefined
        THEN /\ selectedFish' = selected
             /\ uncaught' = FALSE
             /\ UNCHANGED <<guesses, gameOver, won, stats, scoreText, localStorage,
                            inputDisabled>>
        ELSE IF alreadyGuessed(guesses, guessedFish)
        THEN /\ selectedFish' = null
             /\ uncaught' = FALSE
             /\ UNCHANGED <<guesses, gameOver, won, stats, scoreText, localStorage,
                            inputDisabled>>
        ELSE \* const comparison, const guess
             \E guess \in {[fish |-> guessedFish,
                             comparison |-> compareAttributes(guessedFish, targetFish),
                             correct |-> guessedFish.id = targetFish.id]} :
             LET guessed == Append(guesses, guess)
                 nowOver == guess.correct
                 newStats == IF guess.correct THEN wonStats(stats) ELSE stats
                 statsSaved == IF guess.correct THEN saveStats(localStorage, newStats)
                               ELSE localStorage
             IN  /\ guesses' = guessed
                 /\ selectedFish' = null
                 /\ scoreText' = TextOf(calculateScore(guessed, revealedLetters,
                                                       revealedAttributes))
                 /\ gameOver' = (gameOver \/ nowOver)
                 /\ won' = (won \/ nowOver)
                 /\ stats' = newStats
                 /\ IF writable
                    THEN /\ localStorage' = saveGameState(statsSaved, now, guessed,
                                                 revealedLetters, revealedAttributes,
                                                 gameOver \/ nowOver, won \/ nowOver)
                         /\ inputDisabled' = (inputDisabled \/ nowOver)
                         /\ uncaught' = FALSE
                    ELSE \* setItem throws, in saveStats (handleWin stops before
                         \* disableInput and submitGuess before saveGameState) or in
                         \* saveGameState; nothing catches it
                         /\ uncaught' = TRUE
                         /\ UNCHANGED <<localStorage, inputDisabled>>

sessionFrame == <<now, page, fishDatabase, targetFish, gameNumber, hintsTarget,
                  rng, lastDaily, environment>>

\* the submit button or Enter, with value typed in the input
submitGuess(value) ==
    /\ page = "playing"
    /\ submitGuessWith(selectedFish, value)
    /\ UNCHANGED <<revealedLetters, revealedAttributes, sessionFrame>>

\* handleFishSelect(fish), game.js:233-236: an entry of the autocomplete list,
\* which offers the database's entities not yet guessed and is disabled once
\* the game is over (disableInput); selectItem has put the entity's name in
\* the input
handleFishSelect(fish) ==
    /\ page = "playing"
    /\ ~inputDisabled
    /\ \A i \in DOMAIN guesses : guesses[i].fish.id # fish.id
    /\ submitGuessWith(fish, fish.name)
    /\ UNCHANGED <<revealedLetters, revealedAttributes, sessionFrame>>

\* useLetterHint(), game.js:388-397, with Hints.revealLetter drawing position
useLetterHint(position) ==
    /\ page = "playing"
    /\ IF gameOver \/ ~canRevealLetter(hintsTarget, revealedLetters)
       THEN uncaught' = FALSE
            /\ UNCHANGED <<revealedLetters, scoreText, localStorage>>
       ELSE LET revealed == revealLetter(hintsTarget, revealedLetters, position)
            IN  /\ unrevealedPositions(hintsTarget, revealedLetters) # <<>>
                   => position \in Range(unrevealedPositions(hintsTarget, revealedLetters))
                /\ revealedLetters' = revealed.revealedLetters
                /\ IF revealed.result = null
                   THEN uncaught' = FALSE /\ UNCHANGED <<scoreText, localStorage>>
                   ELSE /\ scoreText' = TextOf(calculateScore(guesses, revealedLetters',
                                                              revealedAttributes))
                        /\ IF writable
                           THEN /\ localStorage' = saveGameState(localStorage, now, guesses,
                                        revealedLetters', revealedAttributes, gameOver, won)
                                /\ uncaught' = FALSE
                           ELSE uncaught' = TRUE /\ UNCHANGED localStorage
    /\ UNCHANGED <<guesses, gameOver, won, selectedFish, stats, revealedAttributes,
                   inputDisabled, sessionFrame>>

\* mutant: the attribute hint does not look at gameOver
useAttributeHint_noOverCheck(attribute) ==
    /\ page = "playing"
    /\ IF ~canRevealAttribute(revealedAttributes)
       THEN uncaught' = FALSE
            /\ UNCHANGED <<revealedAttributes, scoreText, localStorage>>
       ELSE LET revealed == revealAttribute(hintsTarget, revealedAttributes, attribute)
            IN  /\ revealed.result # null
                   => attribute \in Range(unrevealedAttributes(revealedAttributes))
                /\ revealedAttributes' = revealed.revealedAttributes
                /\ IF revealed.result = null
                   THEN uncaught' = FALSE /\ UNCHANGED <<scoreText, localStorage>>
                   ELSE /\ scoreText' = TextOf(calculateScore(guesses, revealedLetters,
                                                              revealedAttributes'))
                        /\ IF writable
                           THEN /\ localStorage' = saveGameState(localStorage, now, guesses,
                                        revealedLetters, revealedAttributes', gameOver, won)
                                /\ uncaught' = FALSE
                           ELSE uncaught' = TRUE /\ UNCHANGED localStorage
    /\ UNCHANGED <<guesses, gameOver, won, selectedFish, stats, revealedLetters,
                   inputDisabled, sessionFrame>>

\* useAttributeHint(), game.js:402-411, with Hints.revealAttribute drawing attribute
useAttributeHint(attribute) ==
    /\ page = "playing"
    /\ IF gameOver \/ ~canRevealAttribute(revealedAttributes)
       THEN uncaught' = FALSE
            /\ UNCHANGED <<revealedAttributes, scoreText, localStorage>>
       ELSE LET revealed == revealAttribute(hintsTarget, revealedAttributes, attribute)
            IN  /\ revealed.result # null
                   => attribute \in Range(unrevealedAttributes(revealedAttributes))
                /\ revealedAttributes' = revealed.revealedAttributes
                /\ IF revealed.result = null
                   THEN uncaught' = FALSE /\ UNCHANGED <<scoreText, localStorage>>
                   ELSE /\ scoreText' = TextOf(calculateScore(guesses, revealedLetters,
                                                              revealedAttributes'))
                        /\ IF writable
                           THEN /\ localStorage' = saveGameState(localStorage, now, guesses,
                                        revealedLetters, revealedAttributes', gameOver, won)
                                /\ uncaught' = FALSE
                           ELSE uncaught' = TRUE /\ UNCHANGED localStorage
    /\ UNCHANGED <<guesses, gameOver, won, selectedFish, stats, revealedLetters,
                   inputDisabled, sessionFrame>>

\* Daily.getDailyFish(database, date) called on the open page, with the date
\* left out (today) or given
callGetDailyFish(database, date) ==
    /\ page # "closed"
    /\ LET dailyData == getDailyFish(database, date, tz)
       IN  /\ rng' = dailyData.rng
           /\ lastDaily' = dailyCall("call", database, date, dailyData)
    /\ UNCHANGED <<now, page, fishDatabase, targetFish, gameNumber, guesses, gameOver,
                   won, selectedFish, stats, scoreText, hintsTarget, revealedLetters,
                   revealedAttributes, localStorage, uncaught, inputDisabled,
                   environment>>

\* the wall clock advances
tick(hours) ==
    /\ now + hours < horizon
    /\ now' = now + hours
    /\ UNCHANGED <<page, fishDatabase, targetFish, gameNumber, guesses, gameOver, won,
                   selectedFish, stats, scoreText, hintsTarget, revealedLetters,
                   revealedAttributes, localStorage, rng, lastDaily, uncaught,
                   inputDisabled, environment>>

\* everything of the page and its storage
pageState == <<now, page, fishDatabase, targetFish, gameNumber, guesses, gameOver, won,
               selectedFish, stats, scoreText, hintsTarget, revealedLetters,
               revealedAttributes, rng, lastDaily, uncaught, inputDisabled>>

\* the storage's quota is used up: from now on localStorage.setItem throws
storageFills ==
    /\ writable
    /\ writable' = FALSE
    /\ UNCHANGED <<pageState, localStorage, tz, fishJson, horizon, hintCall, lastShare>>

\* room is made in the storage again
storageFrees ==
    /\ ~writable
    /\ writable' = TRUE
    /\ UNCHANGED <<pageState, localStorage, tz, fishJson, horizon, hintCall, lastShare>>

\* a new data/fish.json is deployed while the page is closed
deploy(database) ==
    /\ page = "closed"
    /\ fishJson # database
    /\ fishJson' = database
    /\ UNCHANGED <<pageState, localStorage, tz, horizon, writable, hintCall, lastShare>>

\* the item under today's key is overwritten from outside the page (another
\* script of the origin, the browser's developer tools) while it is closed
tamper(item) ==
    /\ page = "closed"
    /\ getGameItem(localStorage, getTodayKey(now)) # item
    /\ localStorage' = setGameItem(localStorage, getTodayKey(now), item)
    /\ UNCHANGED <<pageState, environment>>

\* Hints.revealLetter() called on the open page (Hints is a global of the page)
callRevealLetter(position) ==
    /\ page = "playing"
    /\ LET revealed == revealLetter(hintsTarget, revealedLetters, position)
       IN  /\ unrevealedPositions(hintsTarget, revealedLetters) # <<>>
              => position \in Range(unrevealedPositions(hintsTarget, revealedLetters))
           /\ revealedLetters' = revealed.revealedLetters
           /\ hintCall' = [call |-> "revealLetter", returned |-> revealed.result # null]
    /\ UNCHANGED <<now, page, fishDatabase, targetFish, gameNumber, guesses, gameOver, won,
                   selectedFish, stats, scoreText, hintsTarget, revealedAttributes, rng,
                   lastDaily, uncaught, inputDisabled, localStorage, tz, fishJson,
                   horizon, writable, lastShare>>

\* Hints.revealAttribute() called on the open page
callRevealAttribute(attribute) ==
    /\ page = "playing"
    /\ LET revealed == revealAttribute(hintsTarget, revealedAttributes, attribute)
       IN  /\ revealed.result # null
              => attribute \in Range(unrevealedAttributes(revealedAttributes))
           /\ revealedAttributes' = revealed.revealedAttributes
           /\ hintCall' = [call |-> "revealAttribute", returned |-> revealed.result # null]
    /\ UNCHANGED <<now, page, fishDatabase, targetFish, gameNumber, guesses, gameOver, won,
                   selectedFish, stats, scoreText, hintsTarget, revealedLetters, rng,
                   lastDaily, uncaught, inputDisabled, localStorage, tz, fishJson,
                   horizon, writable, lastShare>>

\* const s = Hints.getState(); Hints.init(fish); Hints.loadState(s) on the open page
callLoadState(fish) ==
    /\ page = "playing"
    /\ LET state == getState(revealedLetters, revealedAttributes)
       IN  /\ hintsTarget' = fish
           /\ revealedLetters' = loadedLetters(state)
           /\ revealedAttributes' = loadedAttributes(state)
           /\ hintCall' = [call |-> "loadState", returned |-> TRUE]
    /\ UNCHANGED <<now, page, fishDatabase, targetFish, gameNumber, guesses, gameOver, won,
                   selectedFish, stats, scoreText, rng, lastDaily, uncaught,
                   inputDisabled, localStorage, tz, fishJson, horizon, writable,
                   lastShare>>

\* the gameResult that showResultModal and handleShare build
gameResultOf(hasWon) ==
    [gameNumber |-> gameNumber,
     score |-> calculateScore(guesses, revealedLetters, revealedAttributes),
     guessHistory |-> guesses,
     hintCounts |-> getHintCounts(revealedLetters, revealedAttributes),
     won |-> hasWon]

\* handleShare(), game.js:507-523: the share button of the result modal, which
\* showResultModal has shown where disableInput has run; the text is copied
shareFrame == <<pageState, localStorage, tz, fishJson, horizon, writable, hintCall>>

handleShare ==
    /\ page = "playing"
    /\ inputDisabled
    /\ lastShare' = [by |-> "handleShare", result |-> gameResultOf(won),
                     text |-> generateShareText(gameResultOf(won))]
    /\ UNCHANGED shareFrame

\* Sharing.generateShareText(gameResult) called on the open page (Sharing is a
\* global of the page) with the session as it stands and the won given
callGenerateShareText(hasWon) ==
    /\ page = "playing"
    /\ lastShare' = [by |-> "call", result |-> gameResultOf(hasWon),
                     text |-> generateShareText(gameResultOf(hasWon))]
    /\ UNCHANGED shareFrame

-----------------------------------------------------------------------------
(* Entities and inputs                                                      *)

Fish(id, name, habitat, size, family, region) ==
    [id |-> id, name |-> name,
     attributes |-> [habitat |-> habitat, size |-> size, family |-> family,
                     region |-> region]]

BatRay == Fish("bat-ray", <<"B", "a", "t", " ", "R", "a", "y">>,
               "Coastal", "large", "Myliobatidae", "Pacific")
Koi == Fish("koi", <<"K", "o", "i">>,
            "Freshwater", "medium", "Cyprinidae", "Freshwater Europe/Asia")
Eel == Fish("eel", <<"E", "e", "l">>,
            "Coastal", "medium", "Anguillidae", "Atlantic")
Cod == Fish("cod", <<"C", "o", "d">>,
            "Open Ocean", "large", "Gadidae", "Arctic")

\* what a player may leave in the input: nothing, blanks, no entity's name,
\* an entity's name, or that name in lower case between blanks
TypedTexts(database) ==
    {<<>>, <<" ">>, <<"x">>}
        \cup {database[i].name : i \in DOMAIN database}
        \cup {<<" ">> \o toLowerCase(database[i].name) \o <<" ">> : i \in DOMAIN database}

MaxNameLen == 7
Positions == 0..(MaxNameLen - 1)

TimeZones == {-5, 0, 9}

-----------------------------------------------------------------------------
(* Spec: a player's days.  The page is opened, played, closed and reopened  *)
(* while the clock runs over MaxDays days; at most MaxHints hints are used  *)
(* per page.                                                                *)

MaxDays == 2
MaxHints == 1

HintBudgetLeft == Len(revealedLetters) + Len(revealedAttributes) < MaxHints

Init == InitOf({<<Cod, Koi>>}, {DateUTC(2024, 0, 1)}, {0}, MaxDays * HoursPerDay)

Next ==
    \/ init
    \/ closePage
    \/ tick(HoursPerDay)
    \/ \E value \in TypedTexts(fishDatabase) : submitGuess(value)
    \/ \E i \in DOMAIN fishDatabase : handleFishSelect(fishDatabase[i])
    \/ HintBudgetLeft /\ \E position \in Positions : useLetterHint(position)
    \/ HintBudgetLeft /\ \E attribute \in Range(AttributeNames) : useAttributeHint(attribute)

Spec == Init /\ [][Next]_vars

-----------------------------------------------------------------------------
(* SpecSession: one page on one day, every hint available.                  *)

InitSession == InitOf({<<BatRay, Koi, Eel>>}, {DateUTC(2024, 0, 3)}, {0}, HoursPerDay)

NextSession ==
    \/ init
    \/ \E value \in TypedTexts(fishDatabase) : submitGuess(value)
    \/ \E i \in DOMAIN fishDatabase : handleFishSelect(fishDatabase[i])
    \/ \E position \in Positions : useLetterHint(position)
    \/ \E attribute \in Range(AttributeNames) : useAttributeHint(attribute)

SpecSession == InitSession /\ [][NextSession]_vars

-----------------------------------------------------------------------------
(* SpecDaily: the daily selection alone, over several days around the ends  *)
(* of years and months, in several time zones, the page opened and closed   *)
(* and getDailyFish called again on the open page.                          *)

DailyDays == 3
HalfDay == HoursPerDay \div 2

DailyStarts == {DateUTC(2023, 11, 31), DateUTC(2024, 1, 28), DateUTC(2025, 1, 27)}

InitDaily == InitOf({<<Cod, Koi, Eel>>, <<Koi, Eel>>}, DailyStarts, TimeZones,
                    DailyDays * HoursPerDay)

NextDaily ==
    \/ init
    \/ closePage
    \/ tick(HalfDay)
    \/ \E date \in {getTodayUTC(now), now - 1} : callGetDailyFish(fishDatabase, date)

SpecDaily == InitDaily /\ [][NextDaily]_vars

-----------------------------------------------------------------------------
(* SpecCompare: two entities, one of them the day's target, whose sizes or  *)
(* regions range over the scale and the table and one value outside each.   *)

Sizes == Range(SIZE_ORDER) \cup {"huge"}
Regions == DOMAIN OCEAN_GROUPS \cup {"Mediterranean"}

Clownfish(size, region) ==
    Fish("clownfish", <<"C">>, "Reef", size, "Pomacentridae", region)
Goldfish(size, region) ==
    Fish("goldfish", <<"G">>, "Freshwater", size, "Cyprinidae", region)
Damselfish(size, region) ==
    Fish("damselfish", <<"D">>, "Reef", size, "Pomacentridae", region)

ComparePairs ==
    {<<a, b>> : a \in {Goldfish("small", "Freshwater Americas")},
                b \in {Clownfish("small", "Pacific")}}
    \cup {<<Damselfish(s1, "Pacific"), Clownfish(s2, "Pacific")>> : s1 \in Sizes, s2 \in Sizes}
    \cup {<<Damselfish("small", r1), Clownfish("small", r2)>> : r1 \in Regions, r2 \in Regions}

InitCompare ==
    InitOf(ComparePairs \cup {<<p[2], p[1]>> : p \in ComparePairs},
           {DateUTC(2024, 0, 3)}, {0}, HoursPerDay)

NextCompare ==
    \/ init
    \/ \E value \in TypedTexts(fishDatabase) : submitGuess(value)
    \/ \E i \in DOMAIN fishDatabase : handleFishSelect(fishDatabase[i])

SpecCompare == InitCompare /\ [][NextCompare]_vars

-----------------------------------------------------------------------------
(* SpecStart: one day on which the page is opened again and again while,    *)
(* between two openings, another data/fish.json is deployed (one entity     *)
(* gone, or none left as after a failed load) or the day's item is          *)
(* overwritten with something that is no JSON.                              *)

StartDatabases == {<<Cod, Koi>>, <<Koi>>, <<>>}

\* a player whose item was overwritten can win the day again: the item is
\* overwritten only while fewer than MaxWins wins are on record
MaxWins == 1
WinsSoFar == IF localStorage.stats = null THEN 0 ELSE JSONparse(localStorage.stats).wins

InitStart == InitOf({<<Cod, Koi>>}, {DateUTC(2024, 0, 1)}, {0}, HoursPerDay)

NextStart ==
    \/ init
    \/ closePage
    \/ \E value \in TypedTexts(fishDatabase) : submitGuess(value)
    \/ \E i \in DOMAIN fishDatabase : handleFishSelect(fishDatabase[i])
    \/ HintBudgetLeft /\ \E position \in Positions : useLetterHint(position)
    \/ HintBudgetLeft /\ \E attribute \in Range(AttributeNames) : useAttributeHint(attribute)
    \/ \E database \in StartDatabases : deploy(database)
    \/ WinsSoFar < MaxWins /\ tamper(MalformedItem)

SpecStart == InitStart /\ [][NextStart]_vars

-----------------------------------------------------------------------------
(* SpecStorage: one day with a storage whose quota runs out and is freed    *)
(* again while the page is played, closed and reopened.                     *)

InitStorage == InitOf({<<Cod, Koi>>}, {DateUTC(2024, 0, 1)}, {0}, HoursPerDay)

NextStorage ==
    \/ init
    \/ closePage
    \/ storageFills
    \/ storageFrees
    \/ \E value \in TypedTexts(fishDatabase) : submitGuess(value)
    \/ \E i \in DOMAIN fishDatabase : handleFishSelect(fishDatabase[i])
    \/ HintBudgetLeft /\ \E position \in Positions : useLetterHint(position)
    \/ HintBudgetLeft /\ \E attribute \in Range(AttributeNames) : useAttributeHint(attribute)

SpecStorage == InitStorage /\ [][NextStorage]_vars

-----------------------------------------------------------------------------
(* SpecHints: the hint ledger of one target, used through its own interface *)
(* on the open page: reveals in any order and beyond exhaustion, and its    *)
(* state taken, the ledger initialised again and the state loaded.          *)

InitHints == InitOf({<<BatRay>>}, {DateUTC(2024, 0, 1)}, {0}, HoursPerDay)

NextHints ==
    \/ init
    \/ \E position \in Positions : callRevealLetter(position)
    \/ \E attribute \in Range(AttributeNames) : callRevealAttribute(attribute)
    \/ callLoadState(hintsTarget)

SpecHints == InitHints /\ [][NextHints]_vars

-----------------------------------------------------------------------------
(* SpecShare: one page on one day whose session is shared, from the result  *)
(* modal or by a call, at any point of the play; the entities' sizes and    *)
(* regions give exact, close and wrong comparisons.                         *)

ShareDatabases ==
    {<<Goldfish("small", "Freshwater Americas"), Damselfish("medium", "Indian"),
       Clownfish("small", "Pacific")>>,
     <<Damselfish("small", "Pacific"), Goldfish("large", "Atlantic"),
       Clownfish("medium", "Atlantic")>>}

InitShare == InitOf(ShareDatabases, {DateUTC(2024, 0, 3), DateUTC(2024, 0, 4)}, {0},
                    HoursPerDay)

NextShare ==
    \/ init
    \/ \E i \in DOMAIN fishDatabase : handleFishSelect(fishDatabase[i])
    \/ HintBudgetLeft /\ \E position \in Positions : useLetterHint(position)
    \/ HintBudgetLeft /\ \E attribute \in Range(AttributeNames) : useAttributeHint(attribute)
    \/ handleShare
    \/ \E hasWon \in BOOLEAN : callGenerateShareText(hasWon)

SpecShare == InitShare /\ [][NextShare]_vars

-----------------------------------------------------------------------------
(* SpecOvernight: a page left open over UTC midnight, letter hints taken    *)
(* before and after it, and the page reloaded on the next day, whose target *)
(* has a shorter name than the day's before.                                *)

OvernightHints == 3

OvernightBudgetLeft == Len(revealedLetters) < OvernightHints

InitOvernight == InitOf({<<Koi, BatRay>>}, {DateUTC(2024, 0, 1)}, {0}, MaxDays * HoursPerDay)

NextOvernight ==
    \/ init
    \/ closePage
    \/ tick(HoursPerDay)
    \/ OvernightBudgetLeft /\ \E position \in Positions : useLetterHint(position)

SpecOvernight == InitOvernight /\ [][NextOvernight]_vars

-----------------------------------------------------------------------------
(* SpecPersistent: the player's days of Spec with a player who, whenever    *)
(* the autocomplete list offers an entity not yet guessed, eventually picks *)
(* one.                                                                     *)

persistentGuess == \E i \in DOMAIN fishDatabase : handleFishSelect(fishDatabase[i])

SpecPersistent == Init /\ [][Next]_vars /\ WF_vars(persistentGuess)

-----------------------------------------------------------------------------
(* SpecStreak: StreakDays days on each of which the page may be opened,     *)
(* played to the end or left unfinished, closed, or not opened at all.      *)

StreakDays == 3

InitStreak == InitOf({<<Cod, Koi>>}, {DateUTC(2024, 0, 1)}, {0}, StreakDays * HoursPerDay)

NextStreak ==
    \/ init
    \/ closePage
    \/ tick(HoursPerDay)
    \/ \E i \in DOMAIN fishDatabase : handleFishSelect(fishDatabase[i])

SpecStreak == InitStreak /\ [][NextStreak]_vars

-----------------------------------------------------------------------------
(* Claims                                                                   *)

SameArguments(a, b) == a.database = b.database /\ a.argument = b.argument

\* C1: two calls of getDailyFish with the same database and the same date
\* return the same index (hence the same fish) and the same gameNumber,
\* whatever was called in between: no state carries over from call to call.
C1_DailySelectionDeterministic ==
    (lastDaily # null /\ lastDaily.previous # null
        /\ SameArguments(lastDaily, lastDaily.previous))
    => /\ lastDaily.index = lastDaily.previous.index
       /\ lastDaily.gameNumber = lastDaily.previous.gameNumber

\* C1 witness: getDailyFish has been called twice in a row with the same
\* non-empty database and the same date
C1_Witness ==
    /\ lastDaily # null
    /\ lastDaily.previous # null
    /\ lastDaily.by = "call"
    /\ SameArguments(lastDaily, lastDaily.previous)
    /\ lastDaily.index = 2

\* C2: the target, the gameNumber and the day key chosen by init depend only
\* on the UTC day: a player in any other time zone who opens the page at the
\* same instant gets the same three.
C2_SameSelectionInEveryTimeZone ==
    (page = "playing" /\ lastDaily # null /\ lastDaily.by = "init")
    => \A zone \in TimeZones :
         LET other == getDailyFish(fishDatabase, getTodayUTC(lastDaily.clock), zone)
         IN  /\ other.fish = targetFish
             /\ other.gameNumber = gameNumber
             /\ other.date = lastDaily.date

\* the day after a calendar date <<year, month, day>>, by the calendar's rules
IsLeapYear(y) == (y % 4 = 0 /\ y % 100 # 0) \/ y % 400 = 0
DaysInMonth(y, m) ==
    IF m = 2 THEN (IF IsLeapYear(y) THEN 29 ELSE 28)
    ELSE IF m \in {4, 6, 9, 11} THEN 30 ELSE 31
NextCalendarDay(d) ==
    IF d[3] < DaysInMonth(d[1], d[2]) THEN <<d[1], d[2], d[3] + 1>>
    ELSE IF d[2] < 12 THEN <<d[1], d[2] + 1, 1>>
    ELSE <<d[1] + 1, 1, 1>>

AtUTCMidnight(call) == call.argument % HoursPerDay = 0

\* C3: for UTC-midnight dates the gameNumber is 1 on 2024-01-01 and grows by
\* exactly 1 from a calendar day to the next.
C3_GameNumberCountsDays ==
    lastDaily # null /\ AtUTCMidnight(lastDaily)
    => /\ lastDaily.date = <<2024, 1, 1>> => lastDaily.gameNumber = 1
       /\ (lastDaily.previous # null /\ AtUTCMidnight(lastDaily.previous)
            /\ lastDaily.date = NextCalendarDay(lastDaily.previous.date))
          => lastDaily.gameNumber = lastDaily.previous.gameNumber + 1

\* C3 witness: the selection for 2024-03-01 follows the one for the leap day
\* and is game 61
C3_Witness ==
    /\ lastDaily # null
    /\ AtUTCMidnight(lastDaily)
    /\ lastDaily.date = <<2024, 3, 1>>
    /\ lastDaily.previous # null
    /\ lastDaily.previous.date = <<2024, 2, 29>>
    /\ lastDaily.gameNumber = 61

FirstGuessIsTarget ==
    /\ page = "playing" /\ page' = "playing"
    /\ ~gameOver
    /\ guesses = <<>> /\ revealedLetters = <<>> /\ revealedAttributes = <<>>
    /\ Len(guesses') = 1
    /\ guesses'[1].fish.id = targetFish.id

\* C4 as stated: when the first accepted guess of a fresh session is the
\* target and no hint has been revealed, the score is 100, won is true, and
\* currentStreak and gamesPlayed are each exactly 1 higher than before.
C4_FirstGuessWinScores100 ==
    [][FirstGuessIsTarget
       => /\ scoreText' = TextOf(100)
          /\ calculateScore(guesses', revealedLetters', revealedAttributes') = 100
          /\ won'
          /\ stats'.currentStreak = stats.currentStreak + 1
          /\ stats'.gamesPlayed = stats.gamesPlayed + 1]_vars

\* C4 amended: in that case the score is 95 (the winning guess costs its 5
\* points like any other), won is true, and currentStreak and gamesPlayed are
\* each exactly 1 higher than before the guess.
C4_FirstGuessWin ==
    [][FirstGuessIsTarget
       => /\ scoreText' = TextOf(95)
          /\ calculateScore(guesses', revealedLetters', revealedAttributes') = 95
          /\ won' /\ gameOver'
          /\ stats'.currentStreak = stats.currentStreak + 1
          /\ stats'.gamesPlayed = stats.gamesPlayed + 1]_vars

\* C4 witness: a second day won at the first guess without hints
C4_Witness ==
    /\ page = "playing"
    /\ Len(guesses) = 1 /\ guesses[1].correct
    /\ revealedLetters = <<>> /\ revealedAttributes = <<>>
    /\ won
    /\ scoreText = TextOf(95)
    /\ stats.gamesPlayed = 2 /\ stats.currentStreak = 2

\* C5: the score shown and computed in every session state is
\* max(10, 100 - 5 |guesses| - 10 |revealedLetters| - 5 |revealedAttributes|),
\* so it is never below 10 and never above 100.
RawScore == 100 - 5 * Len(guesses) - 10 * Len(revealedLetters) - 5 * Len(revealedAttributes)

C5_ScoreFormulaAndBounds ==
    page = "playing"
    => /\ scoreText = TextOf(IF RawScore >= 10 THEN RawScore ELSE 10)
       /\ calculateScore(guesses, revealedLetters, revealedAttributes)
            = (IF RawScore >= 10 THEN RawScore ELSE 10)
       /\ \A shown \in scoreText : 10 <= shown /\ shown <= 100

\* C5 witness: the penalties exceed 90 and the score rests on the floor
C5_Witness == page = "playing" /\ RawScore < 10 /\ scoreText = TextOf(10)

\* the position of a size on the scale tiny < small < medium < large < giant
Scale == <<"tiny", "small", "medium", "large", "giant">>
ScalePosition(size) == CHOOSE k \in DOMAIN Scale : Scale[k] = size

\* C6: for every pair of sizes of the scale, with d = index(guessed) -
\* index(target): exact and no direction when d = 0, close when |d| = 1, wrong
\* when |d| >= 2, direction down when d > 0 and up when d < 0.
C6_SizeComparison ==
    \A i \in DOMAIN guesses :
        LET guessedSize == guesses[i].fish.attributes.size
            targetSize == targetFish.attributes.size
            result == guesses[i].comparison.size
        IN  (guessedSize \in Range(Scale) /\ targetSize \in Range(Scale))
            => LET d == ScalePosition(guessedSize) - ScalePosition(targetSize)
               IN  /\ d = 0 => result.match = "exact" /\ result.direction = nullDirection
                   /\ d \in {-1, 1} => result.match = "close"
                   /\ (d >= 2 \/ d <= -2) => result.match = "wrong"
                   /\ d > 0 => result.direction = "down"
                   /\ d < 0 => result.direction = "up"
                   /\ result.value = guessedSize

\* C6 witness: a guess three steps below the target has been compared
C6_Witness ==
    \E i \in DOMAIN guesses :
        /\ guesses[i].fish.attributes.size = "small"
        /\ targetFish.attributes.size = "giant"
        /\ guesses[i].comparison.size.match = "wrong"
        /\ guesses[i].comparison.size.direction = "up"

\* the region groups of the adjacency table
RegionTable == {"Atlantic", "Arctic", "Pacific", "Indian",
                "Freshwater Americas", "Freshwater Europe/Asia"}
RegionGroups == {{"Atlantic", "Arctic"}, {"Pacific", "Indian"}}

\* C7: for every pair of regions of the table the result is exact iff they
\* are equal, close iff they differ and share a group, wrong otherwise, and
\* the comparison the other way round gives the same match.
C7_RegionComparison ==
    \A i \in DOMAIN guesses :
        LET guessedRegion == guesses[i].fish.attributes.region
            targetRegion == targetFish.attributes.region
            result == guesses[i].comparison.region
            grouped == \E group \in RegionGroups :
                          guessedRegion \in group /\ targetRegion \in group
        IN  (guessedRegion \in RegionTable /\ targetRegion \in RegionTable)
            => /\ result.match = "exact" <=> guessedRegion = targetRegion
               /\ result.match = "close" <=> (guessedRegion # targetRegion /\ grouped)
               /\ result.match = "wrong" <=> (guessedRegion # targetRegion /\ ~grouped)
               /\ compareAttributes(targetFish, guesses[i].fish).region.match = result.match

\* C7 witness: Arctic has been guessed against the target region Atlantic
C7_Witness ==
    \E i \in DOMAIN guesses :
        /\ guesses[i].fish.attributes.region = "Arctic"
        /\ targetFish.attributes.region = "Atlantic"
        /\ guesses[i].comparison.region.match = "close"

\* C8: a comparison of entities whose size is off the scale or whose region
\* is missing from the table is aborted: no guess with such a comparison is
\* ever recorded.
C8_InvalidAttributeAborts ==
    \A i \in DOMAIN guesses :
        /\ guesses[i].fish.attributes.size \in Range(Scale)
        /\ targetFish.attributes.size \in Range(Scale)
        /\ guesses[i].fish.attributes.region \in RegionTable
        /\ targetFish.attributes.region \in RegionTable

\* the stats as persisted under 'fishdle-stats'
PersistedStats(storage) ==
    IF storage.stats = null THEN InitialStats ELSE JSONparse(storage.stats)

\* the session persisted under the day's key is won
DayWon(storage, clock) ==
    LET item == getGameItem(storage, getTodayKey(clock))
    IN  item # null /\ JSONparses(item) /\ JSONparse(item).won

WinningStep == page = "playing" /\ page' = "playing" /\ ~won /\ won'

\* C9: PlayerStats changes only at the transition to won, where gamesPlayed,
\* wins and currentStreak each grow by exactly 1 and maxStreak becomes
\* max(maxStreak, currentStreak); once the day's session is won nothing that
\* happens that day (guesses, hints, reloads) changes the stats again.
C9_StatsOncePerSession ==
    [][LET old == PersistedStats(localStorage)
           new == PersistedStats(localStorage')
       IN  /\ new # old => WinningStep
           /\ WinningStep
              => /\ new = [gamesPlayed |-> old.gamesPlayed + 1,
                           wins |-> old.wins + 1,
                           currentStreak |-> old.currentStreak + 1,
                           maxStreak |-> IF old.maxStreak > old.currentStreak + 1
                                         THEN old.maxStreak
                                         ELSE old.currentStreak + 1]
                 /\ stats' = new
           /\ (DayWon(localStorage, now) /\ getTodayKey(now') = getTodayKey(now))
              => new = old]_vars

\* C9 witness: the won session of the second day, restored by a reload, with
\* each counter at 2
C9_Witness ==
    /\ page = "playing" /\ won
    /\ lastDaily.previous # null
    /\ lastDaily.previous.date = lastDaily.date
    /\ stats = [gamesPlayed |-> 2, wins |-> 2, currentStreak |-> 2, maxStreak |-> 2]
    /\ PersistedStats(localStorage) = stats

\* C10: once the game is over, submitGuess, useLetterHint and
\* useAttributeHint leave the guesses, the hint state, the score, gameOver,
\* won, the stats and everything persisted unchanged.
C10_FinishedSessionAbsorbing ==
    [][(page = "playing" /\ gameOver /\ page' = "playing" /\ now' = now)
       => UNCHANGED <<guesses, revealedLetters, revealedAttributes, scoreText,
                      gameOver, won, stats, localStorage>>]_vars

\* C10 witness: a finished session whose hint budget is not used up, so that
\* all three handlers are still invoked on it
C10_Witness ==
    /\ page = "playing" /\ gameOver /\ won
    /\ DayWon(localStorage, now)
    /\ revealedLetters = <<>> /\ revealedAttributes = <<>>
    /\ Len(guesses) = 2

\* the entities of the database whose name the text spells, blanks at the
\* ends and case aside
Named(database, value) ==
    {database[i] : i \in {k \in DOMAIN database :
                            toLowerCase(database[k].name) = toLowerCase(trim(value))}}

GuessedIds(guessList) == {guessList[i].fish.id : i \in DOMAIN guessList}

session == <<guesses, scoreText, gameOver, won, revealedLetters, revealedAttributes, stats>>

NoTwoGuessesOfOneEntity ==
    page = "playing"
    => \A i, j \in DOMAIN guesses : guesses[i].fish.id = guesses[j].fish.id => i = j

\* C11: no two guesses of a session have the same entity id, and a
\* submission that names an entity already guessed leaves the guesses, the
\* score, gameOver, won, the hint state and the stats unchanged.
C11_DuplicateGuessIsNoOp ==
    /\ []NoTwoGuessesOfOneEntity
    /\ [][\A value \in TypedTexts(fishDatabase) :
             (/\ page = "playing"
              /\ \E fish \in Named(fishDatabase, value) : fish.id \in GuessedIds(guesses)
              /\ submitGuess(value))
             => UNCHANGED <<session, localStorage>>]_vars

\* C11 witness: an open session holding a wrong guess, whose name typed
\* again is a duplicate
C11_Witness ==
    /\ page = "playing" /\ ~gameOver /\ ~inputDisabled
    /\ Len(guesses) = 1
    /\ \E value \in TypedTexts(fishDatabase) :
          \E fish \in Named(fishDatabase, value) : fish.id \in GuessedIds(guesses)

\* C12: a submission whose text names no entity of the database leaves the
\* guesses, the hint state, the score, gameOver, won, the stats and the
\* persisted state unchanged.
C12_UnknownNameIsRejected ==
    [][\A value \in TypedTexts(fishDatabase) :
          (/\ page = "playing"
           /\ selectedFish = null
           /\ Named(fishDatabase, value) = {}
           /\ submitGuess(value))
          => UNCHANGED <<session, localStorage>>]_vars

\* C12 witness: an open session with guesses, a hint and a persisted state
\* to lose, and a text that names nothing
C12_Witness ==
    /\ page = "playing" /\ ~gameOver /\ selectedFish = null
    /\ Len(guesses) = 1 /\ Len(revealedLetters) = 1
    /\ getGameItem(localStorage, getTodayKey(now)) # null
    /\ \E value \in TypedTexts(fishDatabase) :
          trim(value) # <<>> /\ Named(fishDatabase, value) = {}

\* C13: gameOver = won; the game is over iff some guess is of the target's
\* id; a correct guess is the last of the sequence and the only one.
C13_EndsOnlyByCorrectGuess ==
    page = "playing"
    => /\ gameOver = won
       /\ gameOver <=> (\E i \in DOMAIN guesses : guesses[i].fish.id = targetFish.id)
       /\ \A i \in DOMAIN guesses :
            /\ guesses[i].correct <=> guesses[i].fish.id = targetFish.id
            /\ guesses[i].correct => i = Len(guesses)

\* what is stored under the key of the clock's day, parsed
StoredToday(storage, clock) == loadGameState(storage, getTodayKey(clock))

\* the session as the claim projects it
Projection(guessList, letters, attributes, over, hasWon) ==
    [guesses |-> [i \in DOMAIN guessList |->
                    [fishId |-> guessList[i].fish.id,
                     comparison |-> guessList[i].comparison,
                     correct |-> guessList[i].correct]],
     hints |-> [revealedLetters |-> letters, revealedAttributes |-> attributes],
     gameOver |-> over,
     won |-> hasWon]

played == <<guesses, revealedLetters, revealedAttributes, gameOver, won>>

FreshSession ==
    guesses = <<>> /\ revealedLetters = <<>> /\ revealedAttributes = <<>>
    /\ ~gameOver /\ ~won

\* C14: after every step of an open page that changes the session, the item
\* under the current day's key is the projection of the session in memory;
\* and a page opened with nothing under the day's key starts a fresh session.
C14_WriteThrough ==
    /\ [][(page = "playing" /\ page' = "playing" /\ played' # played)
          => StoredToday(localStorage', now')
               = Projection(guesses', revealedLetters', revealedAttributes',
                            gameOver', won')]_vars
    /\ [][(page = "closed" /\ page' = "playing"
           /\ getGameItem(localStorage, getTodayKey(now)) = null)
          => FreshSession']_vars

\* C14 witness: a guess and two hints, all of them in the day's item
C14_Witness ==
    /\ page = "playing"
    /\ Len(guesses) = 1 /\ Len(revealedLetters) = 1
    /\ StoredToday(localStorage, now)
         = Projection(guesses, revealedLetters, revealedAttributes, gameOver, won)

\* what init restores from the storage on a page opened at clock
RestoredSession(storage, database, clock) ==
    LET saved == StoredToday(storage, clock)
        restored == restoredGuesses(database, saved)
    IN  <<restored, loadedLetters(saved.hints), loadedAttributes(saved.hints),
          saved.gameOver, saved.won,
          TextOf(calculateScore(restored, loadedLetters(saved.hints),
                                loadedAttributes(saved.hints)))>>

\* C15: whenever the open page has saved its session under the day's key, a
\* reload on that day with the same database restores the guesses (entities,
\* comparisons, correct flags, order), the revealed letters and attributes,
\* gameOver, won and the score exactly as they are in memory; and a page
\* opened on a saved state starts with exactly what is restored from it.
C15_SaveRestoreRoundTrip ==
    /\ [](( page = "playing" /\ StoredToday(localStorage, now) # null)
          => RestoredSession(localStorage, fishJson, now)
               = <<guesses, revealedLetters, revealedAttributes, gameOver, won,
                   scoreText>>)
    /\ [][(page = "closed" /\ page' = "playing" /\ StoredToday(localStorage, now) # null)
          => <<guesses', revealedLetters', revealedAttributes', gameOver', won',
               scoreText'>> = RestoredSession(localStorage, fishJson, now)]_vars

\* C15 witness: a won session of two guesses and a hint, restored by a reload
C15_Witness ==
    /\ page = "playing"
    /\ lastDaily.previous # null /\ lastDaily.previous.date = lastDaily.date
    /\ Len(guesses) = 2 /\ won /\ Len(revealedLetters) = 1 /\ scoreText = TextOf(80)
    /\ selectedFish = null /\ inputDisabled

\* the item under the day's key is no JSON, or names an entity the database
\* does not hold
MalformedSave(storage, clock) ==
    LET item == getGameItem(storage, getTodayKey(clock))
    IN  item # null /\ ~JSONparses(item)

StaleSave(storage, database, clock) ==
    LET item == getGameItem(storage, getTodayKey(clock))
    IN  /\ item # null /\ JSONparses(item)
        /\ \E i \in DOMAIN JSONparse(item).guesses :
              \A k \in DOMAIN database : database[k].id # JSONparse(item).guesses[i].fishId

\* C16: a page opened on a corrupted item (no JSON, or a guess whose entity
\* is not in the database) does not crash: init completes with a fresh
\* session, no guesses, no hints, gameOver and won false.
C16_CorruptedSaveStartsFresh ==
    [][(/\ page = "closed" /\ page' # "closed"
        /\ fishJson # <<>>
        /\ MalformedSave(localStorage, now) \/ StaleSave(localStorage, fishJson, now))
       => (page' = "playing" /\ ~uncaught' /\ FreshSession')]_vars

\* C17: with an empty database the selection fails: no target is assigned,
\* no game number, and no session with an undefined target exists.
C17_EmptyDatabaseFailsAtSelection ==
    /\ (page # "closed" /\ fishDatabase = <<>>) => (targetFish = null /\ gameNumber = 0)
    /\ page = "playing" => targetFish # undefined

\* C18: when the storage rejects the write of a guess, a hint or a win, the
\* handler still runs to its end (no exception escapes it, and a win
\* disables the input) and leaves the guesses, the hint state, the score,
\* gameOver, won and the stats as a successful write would.
C18_WriteFailureSwallowed ==
    [][(page = "playing" /\ page' = "playing" /\ ~writable /\ played' # played)
       => LET wins == Len(guesses') > Len(guesses) /\ guesses'[Len(guesses')].correct
          IN  /\ ~uncaught'
              /\ scoreText' = TextOf(calculateScore(guesses', revealedLetters',
                                                    revealedAttributes'))
              /\ wins => /\ gameOver' /\ won' /\ inputDisabled'
                         /\ stats'.gamesPlayed = stats.gamesPlayed + 1
                         /\ stats'.wins = stats.wins + 1
              /\ ~wins => stats' = stats /\ gameOver' = gameOver /\ won' = won]_vars

AllLettersRevealed ==
    \A i \in DOMAIN hintsTarget.name :
        hintsTarget.name[i] # " " => (i - 1) \in Range(revealedLetters)

AllAttributesRevealed == \A a \in DOMAIN hintsTarget.attributes : a \in Range(revealedAttributes)

Penalty == 10 * Len(revealedLetters) + 5 * Len(revealedAttributes)

Called(name) == page = "playing" /\ page' = "playing" /\ hintCall' # null /\ hintCall'.call = name

\* C19: once all four attributes are revealed every revealAttribute returns
\* null and leaves the revealed letters, the revealed attributes and the
\* penalty unchanged; once every letter of the name is revealed every
\* revealLetter does.
C19_RevealAtExhaustionIsNoOp ==
    /\ [][(Called("revealAttribute") /\ AllAttributesRevealed)
          => (~hintCall'.returned /\ Penalty' = Penalty
              /\ UNCHANGED <<revealedLetters, revealedAttributes>>)]_vars
    /\ [][(Called("revealLetter") /\ AllLettersRevealed)
          => (~hintCall'.returned /\ Penalty' = Penalty
              /\ UNCHANGED <<revealedLetters, revealedAttributes>>)]_vars
    /\ [](page = "playing" /\ AllAttributesRevealed
          => \A a \in Range(AttributeNames) :
                revealAttribute(hintsTarget, revealedAttributes, a).result = null)
    /\ [](page = "playing" /\ AllLettersRevealed
          => \A p \in Positions :
                revealLetter(hintsTarget, revealedLetters, p).result = null)

\* C19 witness: everything is revealed and one more letter was asked for
C19_Witness ==
    /\ page = "playing" /\ AllLettersRevealed /\ AllAttributesRevealed
    /\ Len(revealedLetters) = 6 /\ Len(revealedAttributes) = 4
    /\ hintCall = [call |-> "revealLetter", returned |-> FALSE]

\* C20: taking the ledger's state, initialising the ledger again for the
\* same target and loading the state leaves the revealed letters and
\* attributes, canRevealLetter, canRevealAttribute and the penalty as they
\* were.
C20_HintStateRoundTrip ==
    /\ [][Called("loadState")
          => /\ UNCHANGED <<hintsTarget, revealedLetters, revealedAttributes>>
             /\ canRevealLetter(hintsTarget', revealedLetters')
                  = canRevealLetter(hintsTarget, revealedLetters)
             /\ canRevealAttribute(revealedAttributes')
                  = canRevealAttribute(revealedAttributes)
             /\ Penalty' = Penalty]_vars
    /\ [](page = "playing"
          => LET state == getState(revealedLetters, revealedAttributes)
             IN  /\ loadedLetters(state) = revealedLetters
                 /\ loadedAttributes(state) = revealedAttributes)

\* C20 witness: a ledger with letters and attributes revealed has been reloaded
C20_Witness ==
    /\ page = "playing"
    /\ hintCall = [call |-> "loadState", returned |-> TRUE]
    /\ Len(revealedLetters) = 2 /\ Len(revealedAttributes) = 3

-----------------------------------------------------------------------------
\* the square the share text shows for a match
Square(match) ==
    CASE match = "exact" -> "green square"
      [] match = "close" -> "yellow square"
      [] match = "wrong" -> "white square"

Squares == {"green square", "yellow square", "white square"}
WinMark == "check mark"

\* the lines of a text that hold a square or the win mark, in the text's order
EmojiRows(text) ==
    SelectSeq(text, LAMBDA line : \E k \in DOMAIN line : line[k] \in Squares \cup {WinMark})

\* C21: the share text has exactly one emoji row per guess, in submission
\* order; each row is four squares in the order habitat, size, family, region
\* (green for exact, yellow for close, white for wrong), and the win mark is
\* appended to a row iff that row is the last one and the session is won
C21_ShareTextRows ==
    lastShare # null =>
        LET history == lastShare.result.guessHistory
            rows == EmojiRows(lastShare.text)
        IN  /\ Len(rows) = Len(history)
            /\ \A i \in DOMAIN rows :
                  /\ SubSeq(rows[i], 1, 4)
                        = <<Square(history[i].comparison.habitat.match),
                            Square(history[i].comparison.size.match),
                            Square(history[i].comparison.family.match),
                            Square(history[i].comparison.region.match)>>
                  /\ \A k \in 5..Len(rows[i]) : rows[i][k] \notin Squares
                  /\ (\E k \in DOMAIN rows[i] : rows[i][k] = WinMark)
                        <=> (i = Len(history) /\ lastShare.result.won)
                  /\ (\E k \in DOMAIN rows[i] : rows[i][k] = WinMark)
                        => rows[i][Len(rows[i])] = WinMark

\* a won session of three guesses with a close and an exact square before the
\* last row is shared from the result modal
C21_Witness ==
    /\ lastShare # null
    /\ lastShare.by = "handleShare"
    /\ Len(lastShare.result.guessHistory) = 3
    /\ lastShare.result.won
    /\ \E i \in 1..2 : \E attr \in {"size", "region"} :
          lastShare.result.guessHistory[i].comparison[attr].match = "close"
    /\ \E i \in 1..2 : \E attr \in Range(AttributeNames) :
          lastShare.result.guessHistory[i].comparison[attr].match = "exact"

-----------------------------------------------------------------------------
StrictlyAscending(letters) ==
    \A i \in DOMAIN letters : \A j \in DOMAIN letters : i < j => letters[i] < letters[j]

NoDuplicates(array) ==
    \A i \in DOMAIN array : \A j \in DOMAIN array : i # j => array[i] # array[j]

\* the ledger's arrays are well formed for the target
HintStateWellFormed ==
    /\ StrictlyAscending(revealedLetters)
    /\ \A i \in DOMAIN revealedLetters :
          /\ revealedLetters[i] \in 0..(Len(hintsTarget.name) - 1)
          /\ hintsTarget.name[revealedLetters[i] + 1] # " "
    /\ NoDuplicates(revealedAttributes)
    /\ Range(revealedAttributes) \subseteq {"habitat", "size", "family", "region"}

\* array' is array with exactly one new element
GainsOne(array, arrayAfter) ==
    /\ Len(arrayAfter) = Len(array) + 1
    /\ Range(array) \subseteq Range(arrayAfter)
    /\ Cardinality(Range(arrayAfter) \ Range(array)) = 1

\* C22: in every state reached from a fresh session by reveals, revealedLetters
\* is strictly ascending and holds only indices of non-space characters of the
\* target's name, revealedAttributes has no duplicates and holds only the four
\* attribute names, and each reveal either leaves both arrays unchanged or adds
\* exactly one element to exactly one of them
C22_HintStateInvariant ==
    /\ [](page = "playing" => HintStateWellFormed)
    /\ [][(hintCall' # hintCall \/ revealedLetters' # revealedLetters
             \/ revealedAttributes' # revealedAttributes) /\ page = "playing"
           => \/ UNCHANGED <<revealedLetters, revealedAttributes>>
              \/ /\ GainsOne(revealedLetters, revealedLetters')
                 /\ UNCHANGED revealedAttributes
              \/ /\ GainsOne(revealedAttributes, revealedAttributes')
                 /\ UNCHANGED revealedLetters]_vars

\* the last call revealed a letter, and every letter and every attribute of
\* the target is now revealed
C22_Witness ==
    /\ page = "playing"
    /\ hintCall # null
    /\ hintCall.call = "revealLetter"
    /\ hintCall.returned
    /\ Len(revealedLetters) = Len(getLetterPositions(hintsTarget))
    /\ Len(revealedAttributes) = 4

-----------------------------------------------------------------------------
\* C23: in every session state, restored ones included, canRevealLetter() is
\* true iff some non-space position of the target's name is not yet revealed
\* (iff revealLetter() would return a result), and canRevealAttribute() is true
\* iff some attribute of the target is not yet revealed
C23_CanRevealIffUnrevealed ==
    page = "playing" =>
        /\ canRevealLetter(hintsTarget, revealedLetters)
             <=> unrevealedPositions(hintsTarget, revealedLetters) # <<>>
        /\ canRevealAttribute(revealedAttributes)
             <=> unrevealedAttributes(revealedAttributes) # <<>>

-----------------------------------------------------------------------------
\* the session's guesses, revealed letters and won flag are what a play
\* against target gives
PlayedAgainst(target, guessList, letters, hasWon) ==
    /\ \A i \in DOMAIN guessList :
          /\ guessList[i].comparison = compareAttributes(guessList[i].fish, target)
          /\ guessList[i].correct = (guessList[i].fish.id = target.id)
    /\ Range(letters) \subseteq Range(getLetterPositions(target))
    /\ hasWon => \E i \in DOMAIN guessList : guessList[i].fish.id = target.id

\* C24: the state persisted under the key of UTC day D describes a session
\* played against D's target: the session that the page opened on D restores
\* from it holds no comparison, revealed position or won flag computed against
\* another day's target, even when a page stayed open across UTC midnight
C24_PersistedStateIsOfItsDay ==
    (page = "playing" /\ getTodayKey(now) = lastDaily.date)
        => PlayedAgainst(targetFish, guesses, revealedLetters, won)

-----------------------------------------------------------------------------
\* C25: with a non-empty database the number of accepted guesses never exceeds
\* the database's size, and a session whose player keeps submitting entities
\* not yet guessed eventually is over and won
C25_PersistentPlayerWins ==
    /\ [](page = "playing" => Len(guesses) <= Len(fishDatabase))
    /\ (page = "playing" /\ fishDatabase # <<>>)
          ~> (page # "playing" \/ (gameOver /\ won))

-----------------------------------------------------------------------------
\* the 32-bit value that the generator of a getDailyFish call divides by 2^32
DrawnValue(call) == Mulberry32(seededRandom(dateToSeed(call.argument, tz))).value

\* C26: for a non-empty database and any date the selected index satisfies
\* 0 <= index < database.length, so the day's target is an element of the
\* database; the generator's value is a 32-bit unsigned integer divided by
\* 2^32, which lies in [0, 1)
C26_IndexWithinDatabase ==
    /\ (lastDaily # null /\ lastDaily.database # <<>>) =>
          /\ 0 <= lastDaily.index
          /\ lastDaily.index < Len(lastDaily.database)
          /\ DrawnValue(lastDaily).hi \in 0..(Half - 1)
          /\ DrawnValue(lastDaily).lo \in 0..(Half - 1)
    /\ (page = "playing" /\ fishDatabase # <<>>) =>
          \E i \in DOMAIN fishDatabase : targetFish = fishDatabase[i]

\* a call selected the last entity of the database and the call before it the
\* first
C26_Witness ==
    /\ lastDaily # null
    /\ lastDaily.previous # null
    /\ Len(lastDaily.database) = 3
    /\ lastDaily.index = Len(lastDaily.database) - 1
    /\ lastDaily.previous.index = 0
    /\ page = "playing"

-----------------------------------------------------------------------------
\* C27: starting from zero stats the persisted stats always satisfy
\* wins <= gamesPlayed and currentStreak <= maxStreak, and no step decreases
\* gamesPlayed, wins, currentStreak or maxStreak: the streak is never reset,
\* whatever days are skipped or left unfinished
C27_StatsMonotone ==
    /\ [](/\ PersistedStats(localStorage).wins <= PersistedStats(localStorage).gamesPlayed
          /\ PersistedStats(localStorage).currentStreak
                <= PersistedStats(localStorage).maxStreak)
    /\ [][\A k \in {"gamesPlayed", "wins", "currentStreak", "maxStreak"} :
            PersistedStats(localStorage')[k] >= PersistedStats(localStorage)[k]]_vars

\* the first and the third day are won, the second is not played at all, and
\* the streak stands at 2
C27_Witness ==
    /\ PersistedStats(localStorage).wins = 2
    /\ PersistedStats(localStorage).currentStreak = 2
    /\ DOMAIN localStorage.games = {getTodayKey(now), getTodayKey(now - 2 * HoursPerDay)}

====
